---- MODULE Spec2Model ----
(***************************************************************************)
(* Persona selection (backend_product/persona_selector.py,                 *)
(* backend_website/persona_selector.py) and the review orchestration       *)
(* (backend/manger.py, backend_website/manager.py) as one state machine.   *)
(*                                                                         *)
(* Python values:                                                          *)
(*   Optional[T]   None is <<>>, a value v is <<v>>                        *)
(*   List[str]     in a criteria: a sequence (the caller's list)           *)
(*                 in a row: a set (every use is set(x), "in" or sample)   *)
(*   Tuple[int,int] <<lo, hi>>                                             *)
(*   a name        <<prefix, number>>  ("RandomPersona_" ++ 1000)          *)
(***************************************************************************)
EXTENDS Integers, Sequences, FiniteSets, TLC

\* ------------------------------------------------------------------ bounds
\* rows of the persona sheet that a store may hold
MaxRecords == 3
\* largest num_personas a caller asks for
MaxCount == 3
\* largest number of personas one selection call is made to synthesize
MaxSynth == 1

\* length of the commentary before the JSON part of an answer
MaxProse == 2
\* calls of get_unique_values whose results are kept for comparison
MaxGets == 2

\* the sessions a reviewer hands out
MaxSessions == 1

\* ------------------------------------------------------- python primitives
None == <<>>

Some(v) == <<v>>

\* "is not None" in the place of bool(x)
Truthy_NotNone(o) == o # None

\* bool(x) of an Optional[List] / Optional[Tuple]: None and [] are falsy
Truthy(o) == o # None /\ o[1] # <<>>

Elems(s) == {s[i] : i \in DOMAIN s}

Min(a, b) == IF a <= b THEN a ELSE b

\* random.randint(a, b) raises ValueError on an empty range
randint_raises(a, b) == a > b

\* random.randint(a, b): any integer of a..b; the draws explored are the two
\* ends of the range
randint(a, b) == {x \in {a, b} : a <= x /\ x <= b}

\* random.choice(seq) raises IndexError on an empty population
choice_raises(pop) == pop = {}

choice(pop) == pop

\* random.sample(population, k) raises ValueError unless 0 <= k <= len
sample_raises(pop, k) == k < 0 \/ k > Cardinality(pop)

\* random.sample(population, k) of distinct values, as the set drawn
sample(pop, k) == {S \in SUBSET pop : Cardinality(S) = k}

\* random.sample(list, k) draws k positions of the list
sample_list(lst, k) == {{lst[i] : i \in P} : P \in {Q \in SUBSET DOMAIN lst : Cardinality(Q) = k}}

\* a missing score column / a score cell of a concatenated synthesized row
NaN == 0 - 1

\* --------------------------------------------------------- the persona sheet
RandomName(n) == <<"RandomPersona_", n>>

ReviewerName(n) == <<"Reviewer_", n>>

\* row i of the product sheet (sample_personas.xlsx after prepare_dataframe)
ProductRow(i) ==
    [row |-> i,
     name |-> IF i = 3 THEN RandomName(1000) ELSE <<"Persona", i>>,
     age |-> CASE i = 1 -> 25 [] i = 2 -> 35 [] i = 3 -> 36 [] OTHER -> 24,
     profession |-> IF i = 2 THEN "Doctor" ELSE "Software engineer",
     nationality |-> "US",
     salary_range |-> "50k-80k",
     hobbies |-> CASE i = 1 -> {"chess", "golf"} [] i = 2 -> {"golf"} [] i = 3 -> {"chess"}
                   [] OTHER -> {"chess", "golf"},
     priorities |-> IF i = 3 THEN {} ELSE {"price"},
     constraints |-> {"budget"}]

\* row i of the website reviewer sheet
WebsiteRow(i) ==
    [row |-> i,
     name |-> <<"Expert", i>>,
     age |-> CASE i = 1 -> 25 [] i = 2 -> 35 [] i = 3 -> 36 [] OTHER -> 24,
     profession |-> "Developer",
     expertise_areas |-> CASE i = 1 -> {"SEO", "UX"} [] i = 2 -> {"UX"} [] i = 3 -> {"SEO"}
                           [] OTHER -> {"SEO", "UX"},
     years_experience |-> CASE i = 1 -> 2 [] i = 2 -> 5 [] i = 3 -> 6 [] OTHER -> 1,
     specializations |-> CASE i = 1 -> {"HTML", "CSS"} [] i = 2 -> {"CSS", "JS"} [] OTHER -> {"JS"},
     industry_focus |-> "general"]

\* the first n rows of the sheet; a cell of an expertise column that is not of
\* dtype object is no list: it is shown as the one value explode() yields for it
Sheet(v, n, ok) ==
    [i \in 1..n |-> IF v = "product" THEN ProductRow(i)
                    ELSE IF ok THEN WebsiteRow(i)
                    ELSE [WebsiteRow(i) EXCEPT !.expertise_areas = {"nan"}]]

UnionOf(df, column) == UNION {df[i][column] : i \in DOMAIN df}

ValuesOf(df, column) == {df[i][column] : i \in DOMAIN df}

\* PersonaSelector._cache_unique_values
ProductUniqueValues(df) ==
    [professions |-> ValuesOf(df, "profession"),
     nationalities |-> ValuesOf(df, "nationality"),
     salary_ranges |-> ValuesOf(df, "salary_range"),
     hobbies |-> UnionOf(df, "hobbies"),
     priorities |-> UnionOf(df, "priorities"),
     constraints |-> UnionOf(df, "constraints")]

\* WebsitePersonaSelector._cache_unique_values
WebsiteUniqueValues(df) ==
    [expertise_areas |-> UnionOf(df, "expertise_areas"),
     profession |-> ValuesOf(df, "profession"),
     industry_focus |-> ValuesOf(df, "industry_focus"),
     specializations |-> UnionOf(df, "specializations")]

_cache_unique_values(v, df) == IF v = "product" THEN ProductUniqueValues(df) ELSE WebsiteUniqueValues(df)

\* the columns prepare_dataframe requires
RequiredColumns(v) ==
    IF v = "product"
    THEN {"name", "age", "profession", "nationality", "salary_range", "hobbies", "priorities",
          "constraints"}
    ELSE {"name", "age", "profession", "expertise_areas", "years_experience", "specializations",
          "industry_focus"}

\* the scalar column and the list column in which a sheet of the model has
\* its empty cells
ScalarColumn(v) == IF v = "product" THEN "nationality" ELSE "industry_focus"

ListColumn(v) == IF v = "product" THEN "hobbies" ELSE "expertise_areas"

\* a sheet: the required columns it lacks, its rows, and where it has empty
\* cells: nowhere, in the scalar column of row 1, in the list column of row 1,
\* or in the list column of every row
Sources(v) ==
    [missing : {{}} \cup {{c} : c \in RequiredColumns(v)} \cup {{"name", "age"}},
     n : 0..MaxRecords,
     empty : {"none", "scalar", "list cell", "list column"}]

NoSource == [missing |-> {}, n |-> 0, empty |-> "none"]

\* no call was made on a reviewer
NoRequest == [op |-> "none", provider |-> "none", api_key |-> "none", model_config |-> None]

\* read_excel gives a column whose cells are all empty the dtype float64, and
\* prepare_dataframe converts a list column only if its dtype is object
ListColumnIsObject(src) ==
    src.n = 0 \/ src.empty \in {"none", "scalar"} \/ (src.empty = "list cell" /\ src.n >= 2)

\* the check of one column only
prepare_dataframe_raises_FirstOnly(v, src) == "name" \in src.missing

\* prepare_dataframe: "if missing_columns: raise ValueError"
prepare_dataframe_raises(v, src) == src.missing # {}

\* _cache_unique_values iterates the cells of the list columns; the product
\* selector does so for every list column, the website selector reads
\* expertise_areas with explode()
cache_raises(v, src) == v = "product" /\ ~ListColumnIsObject(src)

\* self.df after prepare_dataframe: an empty scalar cell stays NaN, an empty
\* cell of a converted list column is []
prepare_dataframe(v, src) ==
    LET rows == Sheet(v, src.n, ListColumnIsObject(src))
    IN [i \in DOMAIN rows |->
          IF i = 1 /\ src.empty = "scalar" THEN [rows[i] EXCEPT ![ScalarColumn(v)] = "nan"]
          ELSE IF i = 1 /\ src.empty = "list cell" /\ ListColumnIsObject(src)
          THEN [rows[i] EXCEPT ![ListColumn(v)] = {}]
          ELSE rows[i]]

\* ------------------------------------------------------ selection criteria
\* number of criteria fields a caller sets to something else than the
\* dataclass default
MaxPresent == 2

\* largest minimum-match threshold a caller asks for
MaxThreshold == 2

\* PersonaSelectionCriteria
ProductCriteriaFields ==
    [age_range : {None, Some(<<25, 35>>), Some(<<35, 25>>)},
     professions : {None, Some(<<>>), Some(<<"Software engineer">>)},
     nationalities : {None, Some(<<"UK">>)},
     salary_ranges : {None, Some(<<"50k-80k">>)},
     desired_hobbies : {None, Some(<<>>), Some(<<"chess">>), Some(<<"chess", "golf">>)},
     desired_priorities : {None, Some(<<"price", "quality">>)},
     constraints : {None, Some(<<"budget">>)},
     min_matching_hobbies : 0..MaxThreshold,
     min_matching_priorities : 0..MaxThreshold]

ProductDefaults ==
    [age_range |-> None, professions |-> None, nationalities |-> None, salary_ranges |-> None,
     desired_hobbies |-> None, desired_priorities |-> None, constraints |-> None,
     min_matching_hobbies |-> 1, min_matching_priorities |-> 1]

\* WebsitePersonaSelectionCriteria
WebsiteCriteriaFields ==
    [age_range : {None, Some(<<25, 35>>), Some(<<35, 25>>)},
     expertise_areas : {None, Some(<<>>), Some(<<"SEO">>), Some(<<"SEO", "UX">>)},
     experience_range : {None, Some(<<2, 5>>)},
     profession : {None, Some(<<>>), Some(<<"Designer">>)},
     industry_focus : {None, Some(<<"retail">>)},
     min_matching_specializations : 0..MaxThreshold,
     min_matching_focus : 0..MaxThreshold]

WebsiteDefaults ==
    [age_range |-> None, expertise_areas |-> None, experience_range |-> None, profession |-> None,
     industry_focus |-> None, min_matching_specializations |-> 1, min_matching_focus |-> 1]

NumSet(c, d) == Cardinality({f \in DOMAIN c : c[f] # d[f]})

ProductCriteria == {c \in ProductCriteriaFields : NumSet(c, ProductDefaults) <= MaxPresent}

WebsiteCriteria == {c \in WebsiteCriteriaFields : NumSet(c, WebsiteDefaults) <= MaxPresent}

\* the criteria of the calls of get_selected_personas
CriteriaSet(v) == IF v = "product" THEN ProductCriteria ELSE WebsiteCriteria

\* the criteria POST /generate-reviews and backend/test.py build: age_range,
\* professions and min_matching_hobbies, the rest left at the defaults
ProductRunCriteria ==
    {c \in ProductCriteria :
        /\ c.age_range # None
        /\ c.professions # None
        /\ \A f \in DOMAIN c \ {"age_range", "professions", "min_matching_hobbies"} :
              c[f] = ProductDefaults[f]}

\* the criteria POST /analyze-website builds: an age_range and the four
\* optional fields, the thresholds left at the defaults
WebsiteRunCriteria ==
    {c \in WebsiteCriteria :
        /\ c.age_range # None
        /\ c.min_matching_specializations = WebsiteDefaults.min_matching_specializations
        /\ c.min_matching_focus = WebsiteDefaults.min_matching_focus}

\* the criteria of the runs of the manager
RunCriteriaSet(v) == IF v = "product" THEN ProductRunCriteria ELSE WebsiteRunCriteria

\* ------------------------------------------------------------ the filter
\* self.df.copy(): every row with no score column yet
Copy(df) == [i \in DOMAIN df |-> [r |-> df[i], hobby_match_count |-> NaN,
                                  priority_match_count |-> NaN, expertise_match_count |-> NaN]]

\* the upper bound taken as exclusive
between_exclusive(x, range) == x >= range[1] /\ x < range[2]

\* (df[col] >= range[0]) & (df[col] <= range[1])
between(x, range) == x >= range[1] /\ x <= range[2]

\* Series.isin(values)
isin(x, values) == x \in Elems(values)

\* len(set(x) & set(desired))
match_count(x, desired) == Cardinality(x \cap Elems(desired))

\* PersonaSelector._filter_personas, "Apply filters" and "Apply complex filters"
ProductFilter(df, c) ==
    LET f0 == Copy(df)
        f1 == IF c.age_range # None
              THEN SelectSeq(f0, LAMBDA x : between(x.r.age, c.age_range[1])) ELSE f0
        f2 == IF Truthy(c.professions)
              THEN SelectSeq(f1, LAMBDA x : isin(x.r.profession, c.professions[1])) ELSE f1
        f3 == IF Truthy(c.nationalities)
              THEN SelectSeq(f2, LAMBDA x : isin(x.r.nationality, c.nationalities[1])) ELSE f2
        f4 == IF Truthy(c.salary_ranges)
              THEN SelectSeq(f3, LAMBDA x : isin(x.r.salary_range, c.salary_ranges[1])) ELSE f3
        h5 == [i \in DOMAIN f4 |->
                 [f4[i] EXCEPT !.hobby_match_count = match_count(f4[i].r.hobbies, c.desired_hobbies[1])]]
        f5 == IF Truthy(c.desired_hobbies)
              THEN SelectSeq(h5, LAMBDA x : x.hobby_match_count >= c.min_matching_hobbies) ELSE f4
        p6 == [i \in DOMAIN f5 |->
                 [f5[i] EXCEPT !.priority_match_count = match_count(f5[i].r.priorities, c.desired_priorities[1])]]
        f6 == IF Truthy(c.desired_priorities)
              THEN SelectSeq(p6, LAMBDA x : x.priority_match_count >= c.min_matching_priorities) ELSE f5
    IN f6

\* the rows that reach the expertise filter of the website selector
WebsiteScalarFilter(df, c) ==
    LET f0 == Copy(df)
        f1 == IF c.age_range # None
              THEN SelectSeq(f0, LAMBDA x : between(x.r.age, c.age_range[1])) ELSE f0
        f2 == IF c.experience_range # None
              THEN SelectSeq(f1, LAMBDA x : between(x.r.years_experience, c.experience_range[1])) ELSE f1
        f3 == IF Truthy(c.profession)
              THEN SelectSeq(f2, LAMBDA x : isin(x.r.profession, c.profession[1])) ELSE f2
        f4 == IF Truthy(c.industry_focus)
              THEN SelectSeq(f3, LAMBDA x : isin(x.r.industry_focus, c.industry_focus[1])) ELSE f3
    IN f4

\* WebsitePersonaSelector._filter_personas, "Apply filters" and "Apply expertise areas filter"
WebsiteFilter(df, c) ==
    LET f4 == WebsiteScalarFilter(df, c)
        e5 == [i \in DOMAIN f4 |->
                 [f4[i] EXCEPT !.expertise_match_count = match_count(f4[i].r.expertise_areas, c.expertise_areas[1])]]
        f5 == IF Truthy(c.expertise_areas)
              THEN SelectSeq(e5, LAMBDA x : x.expertise_match_count >= c.min_matching_specializations) ELSE f4
    IN f5

\* set(x) of a cell that is not a list raises TypeError: the expertise column
\* was not of dtype object, so prepare_dataframe left its cells as they were
WebsiteFilterRaises(df, c, lists_ok) ==
    ~lists_ok /\ Truthy(c.expertise_areas) /\ WebsiteScalarFilter(df, c) # <<>>

\* --------------------------------------------------------- the backfill
\* the multi-valued field of a synthesized persona: min(threshold, len(desired))
\* values sampled from the desired list, then 1..extra values sampled from
\* what the catalog holds besides them
SeededValues(desired, threshold, catalog, extra) ==
    LET seeds == IF Truthy(desired)
                 THEN sample_list(desired[1], Min(threshold, Len(desired[1])))
                 ELSE {{}}
    IN UNION {{s \cup a : a \in UNION {sample(catalog \ s, k) : k \in 1..extra}} : s \in seeds}

\* some draw of the two random.sample calls above raises
SeededValuesRaise(desired, threshold, catalog, extra) ==
    LET m == Min(threshold, Len(desired[1]))
        seeds == IF Truthy(desired) /\ m >= 0 THEN sample_list(desired[1], m) ELSE {{}}
    IN \/ Truthy(desired) /\ (m < 0 \/ m > Len(desired[1]))
       \/ \E s \in seeds, k \in 1..extra : sample_raises(catalog \ s, k)

\* the allow-list ignored: the draw is from the whole catalog
Population_CatalogOnly(allowed, catalog) == catalog

\* the population of a random.choice: the allow-list when truthy, else the catalog
Population(allowed, catalog) == IF Truthy(allowed) THEN Elems(allowed[1]) ELSE catalog

\* the bounds of a random.randint: the requested range, else the default one
Lo(range, default) == IF range # None THEN range[1][1] ELSE default

Hi(range, default) == IF range # None THEN range[1][2] ELSE default

\* PersonaSelector._generate_random_persona: the rows it can return
ProductGenerate(c, uv) ==
    {[row |-> 0, name |-> RandomName(n), age |-> a, profession |-> p, nationality |-> nat,
      salary_range |-> sal, hobbies |-> h, priorities |-> q, constraints |-> k] :
        n \in randint(1000, 9999),
        a \in randint(Lo(c.age_range, 18), Hi(c.age_range, 80)),
        p \in choice(Population(c.professions, uv.professions)),
        nat \in choice(Population(c.nationalities, uv.nationalities)),
        sal \in choice(Population(c.salary_ranges, uv.salary_ranges)),
        h \in SeededValues(c.desired_hobbies, c.min_matching_hobbies, uv.hobbies, 3),
        q \in SeededValues(c.desired_priorities, c.min_matching_priorities, uv.priorities, 2),
        k \in UNION {sample(uv.constraints, j) : j \in 1..2}}

\* PersonaSelector._generate_random_persona: some draw raises
ProductGenerateRaises(c, uv) ==
    \/ randint_raises(Lo(c.age_range, 18), Hi(c.age_range, 80))
    \/ choice_raises(Population(c.professions, uv.professions))
    \/ choice_raises(Population(c.nationalities, uv.nationalities))
    \/ choice_raises(Population(c.salary_ranges, uv.salary_ranges))
    \/ SeededValuesRaise(c.desired_hobbies, c.min_matching_hobbies, uv.hobbies, 3)
    \/ SeededValuesRaise(c.desired_priorities, c.min_matching_priorities, uv.priorities, 2)
    \/ \E j \in 1..2 : sample_raises(uv.constraints, j)

\* WebsitePersonaSelector._generate_random_persona: the rows it can return
WebsiteGenerate(c, uv) ==
    {[row |-> 0, name |-> ReviewerName(n), age |-> a, profession |-> p, expertise_areas |-> e,
      years_experience |-> y, specializations |-> s, industry_focus |-> f] :
        a \in randint(Lo(c.age_range, 25), Hi(c.age_range, 65)),
        y \in randint(Lo(c.experience_range, 2), Hi(c.experience_range, 20)),
        p \in choice(Population(c.profession, uv.profession)),
        e \in SeededValues(c.expertise_areas, c.min_matching_specializations, uv.expertise_areas, 3),
        f \in choice(Population(c.industry_focus, uv.industry_focus)),
        n \in randint(1000, 9999),
        s \in sample(uv.specializations, 3)}

\* WebsitePersonaSelector._generate_random_persona: some draw raises
WebsiteGenerateRaises(c, uv) ==
    \/ randint_raises(Lo(c.age_range, 25), Hi(c.age_range, 65))
    \/ randint_raises(Lo(c.experience_range, 2), Hi(c.experience_range, 20))
    \/ choice_raises(Population(c.profession, uv.profession))
    \/ SeededValuesRaise(c.expertise_areas, c.min_matching_specializations, uv.expertise_areas, 3)
    \/ choice_raises(Population(c.industry_focus, uv.industry_focus))
    \/ sample_raises(uv.specializations, 3)

_generate_random_persona(v, c, uv) ==
    IF v = "product" THEN ProductGenerate(c, uv) ELSE WebsiteGenerate(c, uv)

_generate_random_persona_raises(v, c, uv) ==
    IF v = "product" THEN ProductGenerateRaises(c, uv) ELSE WebsiteGenerateRaises(c, uv)

\* ------------------------------------------------------------- the trimming
\* DataFrame.sum(axis=1) skips the missing cells
skipna(cell) == IF cell = NaN THEN 0 ELSE cell

\* the score column that nlargest ranks by: total_score = the sum of the
\* present score columns (product), expertise_match_count (website)
Score(v, c, x) ==
    IF v = "product"
    THEN (IF Truthy(c.desired_hobbies) THEN skipna(x.hobby_match_count) ELSE 0)
         + (IF Truthy(c.desired_priorities) THEN skipna(x.priority_match_count) ELSE 0)
    ELSE x.expertise_match_count

\* criteria.desired_hobbies or criteria.desired_priorities / criteria.expertise_areas
Scored(v, c) ==
    IF v = "product"
    THEN Truthy(c.desired_hobbies) \/ Truthy(c.desired_priorities)
    ELSE Truthy(c.expertise_areas)

\* nsmallest in the place of nlargest: the smallest score is taken first
First_Smallest(v, c, rows, left) ==
    CHOOSE i \in left : \A j \in left :
        \/ Score(v, c, rows[i]) < Score(v, c, rows[j])
        \/ Score(v, c, rows[i]) = Score(v, c, rows[j]) /\ i <= j

\* the position nlargest takes next: the greatest score, the first of equals
First(v, c, rows, left) ==
    CHOOSE i \in left : \A j \in left :
        \/ Score(v, c, rows[i]) > Score(v, c, rows[j])
        \/ Score(v, c, rows[i]) = Score(v, c, rows[j]) /\ i <= j

RECURSIVE nlargest_from(_, _, _, _, _)
nlargest_from(v, c, rows, left, n) ==
    IF n = 0 \/ left = {} THEN <<>>
    ELSE LET i == First(v, c, rows, left)
         IN <<rows[i]>> \o nlargest_from(v, c, rows, left \ {i}, n - 1)

\* DataFrame.nlargest(n, column): the n rows of greatest score, greatest first
nlargest(v, c, rows, n) == nlargest_from(v, c, rows, DOMAIN rows, n)

\* sampling with replacement: a row can be drawn twice
df_sample_replace(rows, n) == {[k \in 1..n |-> rows[o[k]]] : o \in [1..n -> DOMAIN rows]}

\* DataFrame.sample(n): n distinct rows in a random order
df_sample(rows, n) ==
    {[k \in 1..n |-> rows[o[k]]] :
        o \in {p \in [1..n -> DOMAIN rows] : \A a, b \in 1..n : a # b => p[a] # p[b]}}

\* the trimming forgotten: every row is kept
Trim_KeepAll(v, c, rows, n) == {rows}

\* _filter_personas, "Ensure we don't exceed requested number of personas"
Trim(v, c, rows, n) ==
    IF Len(rows) > n
    THEN (IF Scored(v, c) THEN {nlargest(v, c, rows, n)} ELSE df_sample(rows, n))
    ELSE {rows}

\* the generated personas are put before the rows
Concat_PersonasFirst(rows, personas) ==
    [i \in DOMAIN personas |->
        [r |-> personas[i], hobby_match_count |-> NaN,
         priority_match_count |-> NaN, expertise_match_count |-> NaN]] \o rows

\* pd.concat([filtered_df, pd.DataFrame(random_personas)], ignore_index=True)
Concat(rows, personas) ==
    rows \o [i \in DOMAIN personas |->
                [r |-> personas[i], hobby_match_count |-> NaN,
                 priority_match_count |-> NaN, expertise_match_count |-> NaN]]

\* SelectedPersona.from_series
from_series(x) ==
    [row |-> x.r.row, name |-> x.r.name, age |-> x.r.age, profession |-> x.r.profession,
     nationality |-> x.r.nationality, salary_range |-> x.r.salary_range, hobbies |-> x.r.hobbies,
     priorities |-> x.r.priorities, constraints |-> x.r.constraints]

\* ReviewerProfile(...) built in WebsitePersonaSelector.get_selected_personas
ReviewerProfile(x) ==
    [row |-> x.r.row, profession |-> x.r.profession, specialization |-> "web development",
     age |-> x.r.age, years_experience |-> x.r.years_experience,
     expertise_areas |-> x.r.expertise_areas, technical_skills |-> x.r.specializations,
     industry_focus |-> x.r.industry_focus]

\* the list comprehension / loop over filtered_df.iterrows()
Profiles(v, rows) ==
    [i \in DOMAIN rows |-> IF v = "product" THEN from_series(rows[i]) ELSE ReviewerProfile(rows[i])]

\* ------------------------------------------------------------ the summary
\* what a summary field or a JSON member holds: a number, a string, a list
\* of strings, or a mapping given by its items in insertion order
Num(n) == [kind |-> "num", n |-> n, s |-> "", l |-> <<>>, d |-> <<>>]

Str(s) == [kind |-> "str", n |-> 0, s |-> s, l |-> <<>>, d |-> <<>>]

List(l) == [kind |-> "list", n |-> 0, s |-> "", l |-> l, d |-> <<>>]

Dict(d) == [kind |-> "dict", n |-> 0, s |-> "", l |-> <<>>, d |-> d]

\* a text is a sequence of tokens: the braces, a member name with its colon,
\* a JSON value that is not an object, a digit, and any other character
Tok(t, k, v) == [t |-> t, k |-> k, v |-> v]

LB == Tok("{", "", Num(0))

RB == Tok("}", "", Num(0))

Prose == Tok("prose", "", Num(0))

Digit(n) == Tok("digit", "", Num(n))

Key(k) == Tok("key", k, Num(0))

Value(v) == Tok("value", "", v)

\* the dataclass fields, in declaration order
Fields(v) ==
    IF v = "product"
    THEN <<"overall_sentiment", "purchase_intent_percentage", "confidence_score", "key_strengths",
           "key_concerns", "demographic_insights", "common_themes", "recommendation",
           "detailed_summary">>
    ELSE <<"overall_assessment", "usability_score", "confidence_score", "key_strengths",
           "key_issues", "technical_insights", "user_experience_themes", "recommendations",
           "detailed_summary">>

FieldSet(v) == {Fields(v)[i] : i \in DOMAIN Fields(v)}

\* the two percentage scores
ScoreFields(v) == {Fields(v)[2], Fields(v)[3]}

\* dict operations on items kept in insertion order
Keys(items) == {items[j][1] : j \in DOMAIN items}

Get(items, k) == items[CHOOSE j \in DOMAIN items : items[j][1] = k][2]

\* d[k] = v: a key already there keeps its place and takes the new value
Put(items, k, v) ==
    IF k \in Keys(items)
    THEN [j \in DOMAIN items |-> IF items[j][1] = k THEN <<k, v>> ELSE items[j]]
    ELSE Append(items, <<k, v>>)

\* self.__dict__ of a summary
Items(v, s) == [i \in DOMAIN Fields(v) |-> <<Fields(v)[i], s[Fields(v)[i]]>>]

\* json.dumps of the members of a mapping
RECURSIVE dumps_items(_)
dumps_items(items) ==
    IF items = <<>> THEN <<>>
    ELSE LET k == items[1][1]
             v == items[1][2]
         IN (IF v.kind = "dict"
             THEN <<Key(k), LB>> \o dumps_items(v.d) \o <<RB>>
             ELSE <<Key(k), Value(v)>>) \o dumps_items(Tail(items))

\* json.dumps(mapping)
dumps(items) == <<LB>> \o dumps_items(items) \o <<RB>>

\* ReviewSummary.to_json / WebsiteAnalysisSummary.to_json
to_json(v, s) == dumps(Items(v, s))

\* json_str.rfind('{'): the last brace of the text
find_Last(json_str) ==
    IF \E i \in DOMAIN json_str : json_str[i] = LB
    THEN CHOOSE i \in DOMAIN json_str : json_str[i] = LB /\ \A j \in (i + 1)..Len(json_str) : json_str[j] # LB
    ELSE 0 - 1

\* no tolerance of commentary: the text is decoded from its start
find_Start(json_str) == IF json_str = <<>> THEN 0 - 1 ELSE 1

\* json_str.find('{') with positions counted from 1, -1 when there is none
find(json_str) ==
    IF \E i \in DOMAIN json_str : json_str[i] = LB
    THEN CHOOSE i \in DOMAIN json_str : json_str[i] = LB /\ \A j \in 1..(i - 1) : json_str[j] # LB
    ELSE 0 - 1

\* the last character of a token
LastChar(tok) ==
    IF tok.t = "digit" THEN tok
    ELSE IF tok.t = "value" /\ tok.v.kind = "num" THEN Digit(tok.v.n % 10)
    ELSE IF tok.t = "}" THEN RB
    ELSE Prose

\* json_str[start_index:], where -1 leaves the last character
slice_from(json_str, start_index) ==
    IF start_index >= 1 THEN SubSeq(json_str, start_index, Len(json_str))
    ELSE IF json_str = <<>> THEN <<>>
    ELSE <<LastChar(json_str[Len(json_str)])>>

DecodeError == [ok |-> FALSE, value |-> Dict(<<>>), next |-> 0]

\* the JSON decoder after an opening brace: members up to the closing brace
RECURSIVE ParseMembers(_, _, _)
ParseMembers(text, i, acc) ==
    IF i > Len(text) THEN DecodeError
    ELSE IF text[i].t = "}" THEN [ok |-> TRUE, value |-> Dict(acc), next |-> i + 1]
    ELSE IF text[i].t = "key" /\ i < Len(text) /\ text[i + 1].t = "value"
    THEN ParseMembers(text, i + 2, Put(acc, text[i].k, text[i + 1].v))
    ELSE IF text[i].t = "key" /\ i < Len(text) /\ text[i + 1].t = "{"
    THEN LET inner == ParseMembers(text, i + 2, <<>>)
         IN IF inner.ok THEN ParseMembers(text, inner.next, Put(acc, text[i].k, inner.value))
            ELSE DecodeError
    ELSE DecodeError

\* decoder.raw_decode(json_string): the value the text starts with; what
\* follows the value is not looked at
raw_decode(json_string) ==
    IF json_string = <<>> THEN DecodeError
    ELSE IF json_string[1].t = "{" THEN ParseMembers(json_string, 2, <<>>)
    ELSE IF json_string[1].t = "digit" THEN [ok |-> TRUE, value |-> json_string[1].v, next |-> 2]
    ELSE DecodeError

\* start_index = json_str.find('{'); data, _ = decoder.raw_decode(json_str[start_index:])
Decoded(json_str) == raw_decode(slice_from(json_str, find(json_str)))

\* only a missing field is refused
ConstructRaises_MissingOnly(v, data) == ~(FieldSet(v) \subseteq Keys(data.d))

\* cls(**data) is a TypeError unless the keys are the fields
ConstructRaises(v, data) == Keys(data.d) # FieldSet(v)

\* cls(**data)
Construct(v, data) == [f \in FieldSet(v) |-> Get(data.d, f)]

\* the exception the try block of from_json ends with
from_json_exc(v, json_str) ==
    LET r == Decoded(json_str)
    IN IF ~r.ok THEN "JSONDecodeError"
       ELSE IF r.value.kind # "dict" THEN "ValueError"
       ELSE IF ConstructRaises(v, r.value) THEN "TypeError"
       ELSE "none"

\* the summary returned after the except clauses of from_json
UnableToParse(v) ==
    IF v = "product"
    THEN [overall_sentiment |-> Str("Neutral"),
          purchase_intent_percentage |-> Num(0),
          confidence_score |-> Num(0),
          key_strengths |-> List(<<"Unable to parse review">>),
          key_concerns |-> List(<<"Unable to parse review">>),
          demographic_insights |-> Dict(<<<<"error", Str("Unable to parse review")>>>>),
          common_themes |-> List(<<"Unable to parse review">>),
          recommendation |-> Str("Unable to generate recommendation due to parsing error"),
          detailed_summary |-> Str("Unable to generate summary due to parsing error")]
    ELSE [overall_assessment |-> Str("Neutral"),
          usability_score |-> Num(0),
          confidence_score |-> Num(0),
          key_strengths |-> List(<<"Unable to parse analysis">>),
          key_issues |-> List(<<"Unable to parse analysis">>),
          technical_insights |-> Dict(<<<<"error", Str("Unable to parse analysis")>>>>),
          user_experience_themes |-> List(<<"Unable to parse analysis">>),
          recommendations |-> List(<<"Unable to generate recommendations">>),
          detailed_summary |-> Str("Unable to generate summary due to parsing error")]

\* no summary: the call raised
NoSummary == <<>>

\* the second except clause left out
Handled_DecodeOnly(exc) == exc = "JSONDecodeError"

\* "except json.JSONDecodeError" and "except Exception" of from_json
Handled(exc) == exc \in {"JSONDecodeError", "ValueError", "TypeError"}

\* ReviewSummary.from_json / WebsiteAnalysisSummary.from_json
from_json(v, json_str) ==
    LET exc == from_json_exc(v, json_str)
    IN IF exc = "none"
       THEN [raised |-> "none", summary |-> Construct(v, Decoded(json_str).value)]
       ELSE IF Handled(exc) THEN [raised |-> "none", summary |-> UnableToParse(v)]
       ELSE [raised |-> exc, summary |-> NoSummary]

\* the default summary of the except clause of the summarizer
ErrorProcessing(v) ==
    IF v = "product"
    THEN [overall_sentiment |-> Str("Neutral"),
          purchase_intent_percentage |-> Num(0),
          confidence_score |-> Num(0),
          key_strengths |-> List(<<"Error processing review">>),
          key_concerns |-> List(<<"Error processing review">>),
          demographic_insights |-> Dict(<<<<"error", Str("Processing failed")>>>>),
          common_themes |-> List(<<"Error processing review">>),
          recommendation |-> Str("Unable to generate recommendation due to processing error"),
          detailed_summary |-> Str("Error occurred while processing reviews")]
    ELSE [overall_assessment |-> Str("Neutral"),
          usability_score |-> Num(0),
          confidence_score |-> Num(0),
          key_strengths |-> List(<<"Error processing analysis">>),
          key_issues |-> List(<<"Error processing analysis">>),
          technical_insights |-> Dict(<<<<"error", Str("Processing failed")>>>>),
          user_experience_themes |-> List(<<"Error processing analysis">>),
          recommendations |-> List(<<"Unable to generate recommendations">>),
          detailed_summary |-> Str("Error occurred while processing analyses")]

\* what the backend of the summarizer does: model.invoke raises, or its
\* response holds a text
Raises == [raises |-> TRUE, content |-> <<>>]

Returns(text) == [raises |-> FALSE, content |-> text]

\* the except clause logs and re-raises, as the other components do
SummarizerHandled_Reraise(exc) == FALSE

\* "except Exception" of summarize_reviews / summarize_analyses
SummarizerHandled(exc) == exc # "none"

\* ReviewSummarizer.summarize_reviews / WebsiteAnalysisSummarizer.summarize_analyses
summarize_reviews(v, backend) ==
    LET exc == IF backend.raises THEN "Exception" ELSE from_json(v, backend.content).raised
    IN IF exc = "none" THEN [raised |-> "none", summary |-> from_json(v, backend.content).summary]
       ELSE IF SummarizerHandled(exc) THEN [raised |-> "none", summary |-> ErrorProcessing(v)]
       ELSE [raised |-> exc, summary |-> NoSummary]

\* the sequences over S of length at most n
Seqs(S, n) == UNION {[1..k -> S] : k \in 0..n}

\* the scores a backend writes in its answer
Scores == {0, 100, 101}

\* a summary with these two scores, every other field of its declared type
SampleSummary(v, a, b) ==
    [f \in FieldSet(v) |->
        IF f = Fields(v)[2] THEN Num(a)
        ELSE IF f = Fields(v)[3] THEN Num(b)
        ELSE IF f = Fields(v)[6] THEN Dict(<<<<"age_based", Str("text")>>>>)
        ELSE IF f \in {Fields(v)[4], Fields(v)[5], Fields(v)[7], "recommendations"}
        THEN List(<<"text">>)
        ELSE Str("text")]

Without(items, f) == SelectSeq(items, LAMBDA it : it[1] # f)

\* the JSON part of an answer: an object with the required members, with one
\* missing, with one more, with text for a score, with one twice, without its
\* closing brace, with no
\* member, no JSON at all, or what to_json gives for the two default summaries
Bodies(v) ==
    LET items == Items(v, SampleSummary(v, 0, 0))
    IN {to_json(v, SampleSummary(v, a, b)) : a \in Scores, b \in Scores}
       \cup {dumps(Without(items, f)) : f \in FieldSet(v)}
       \cup {dumps(Append(items, <<"extra", Str("text")>>)),
             dumps(Append(Without(items, Fields(v)[2]), <<Fields(v)[2], Str("text")>>)),
             <<LB>> \o dumps_items(items) \o <<Key("confidence_score"), Value(Num(100)), RB>>,
             <<LB>> \o dumps_items(items),
             <<LB, RB>>, <<>>, <<Digit(7)>>, <<Prose>>,
             to_json(v, UnableToParse(v)), to_json(v, ErrorProcessing(v))}

\* response.content: commentary that may hold a brace, the JSON part, and
\* text after it
Contents(v) ==
    {p \o b \o s : p \in Seqs({Prose, LB}, MaxProse), b \in Bodies(v),
                   s \in {<<>>, <<Prose>>, <<Digit(7)>>}}

\* the behaviours of the backend of the summarizer
Backends(v) == {Raises} \cup {Returns(text) : text \in Contents(v)}

\* the behaviours of the backend in the runs of the manager
RunBackends(v) == {Raises, Returns(<<Prose>>), Returns(<<Prose>> \o to_json(v, SampleSummary(v, 100, 100)))}

\* ------------------------------------------------------------ the state
VARIABLES
    variant,                    \* "product": backend_product + backend, "website": backend_website
    df,                         \* self.df, the rows of the store
    lists_ok,                   \* the expertise_areas cells are lists (the column was of dtype object)
    unique_values,              \* self.unique_values, the catalog: the content of each list
    source,                     \* the sheet a selector under construction reads
    reviewer,                   \* a ProductReviewer / WebsiteReviewer on its own
    sessions,                   \* history: the sessions generate_review returned
    request,                    \* the arguments of the last call on the reviewer
    returned,                   \* the mapping the latest get_unique_values call gave its caller
    catalog_seen,               \* history: where each get_unique_values call was made and what it returned
    pc,                         \* where the run is
    error,                      \* what the run raised
    criteria,                   \* config.persona_criteria
    num_personas,               \* config.num_personas
    randomize_if_insufficient,  \* config.randomize_if_insufficient
    filtered_df,                \* _filter_personas: filtered_df
    random_personas,            \* _filter_personas: random_personas
    selected_personas,          \* the list get_selected_personas returned
    ai_provider,                \* config.ai_provider
    reviews,                    \* the list "reviews" / "analyses" of the manager
    calls,                      \* history: the provider calls made, in order, and how each ended
    summarized,                 \* history: the review texts the summarizer was invoked with
    backend,                    \* what the backend of the summarizer did in that call
    result                      \* the dict the run returned

vars == <<variant, df, lists_ok, unique_values, source, reviewer, sessions, request, returned, catalog_seen, pc, error, criteria, num_personas,
          randomize_if_insufficient, filtered_df, random_personas, selected_personas,
          ai_provider, reviews, calls, summarized, backend, result>>

frame == <<source, reviewer, sessions, request>>

sheet == <<variant, df, lists_ok, frame>>

handles == <<returned, catalog_seen>>

store == <<sheet, unique_values, handles>>

call_args == <<criteria, num_personas, randomize_if_insufficient>>

manager_state == <<ai_provider, reviews, calls, summarized, backend, result>>

NoCriteria == [none |-> TRUE]

NoResult == [none |-> TRUE]

\* PersonaSelector.__init__ / WebsitePersonaSelector.__init__ on the first n
\* rows of the sheet. Only the website store can hold an expertise column
\* whose cells are not lists: the product catalog iterates every list cell
\* and fails the construction.
Init ==
    /\ variant \in {"product", "website"}
    /\ lists_ok \in (IF variant = "website" THEN BOOLEAN ELSE {TRUE})
    /\ \E n \in 0..MaxRecords : df = Sheet(variant, n, lists_ok)
    /\ unique_values = _cache_unique_values(variant, df)
    /\ source = NoSource
    /\ reviewer = None
    /\ sessions = <<>>
    /\ request = NoRequest
    /\ returned = None
    /\ catalog_seen = <<>>
    /\ pc = "idle"
    /\ error = "none"
    /\ criteria = NoCriteria
    /\ num_personas = 0
    /\ randomize_if_insufficient = FALSE
    /\ filtered_df = <<>>
    /\ random_personas = <<>>
    /\ selected_personas = <<>>
    /\ ai_provider = "none"
    /\ reviews = <<>>
    /\ calls = <<>>
    /\ summarized = None
    /\ backend = Raises
    /\ result = NoResult

_filter_personas(v, rows, c) == IF v = "product" THEN ProductFilter(rows, c) ELSE WebsiteFilter(rows, c)

_filter_personas_raises(v, rows, c, ok) == v = "website" /\ WebsiteFilterRaises(rows, c, ok)

\* the exception swallowed: the call returns what it had built
Reraise_Swallow(v, rows, personas) ==
    [pc |-> "selected", selected |-> Profiles(v, Concat(rows, personas))]

\* "except Exception as e: logger.error(...); raise" in _generate_random_persona,
\* _filter_personas and get_selected_personas: the caller gets the exception
\* and no list, whatever rows and personas the call had built
Reraise(v, rows, personas) == [pc |-> "raised", selected |-> <<>>]

\* a selection call ends by an exception
SelectionRaises(rows, personas) ==
    LET out == Reraise(variant, rows, personas)
    IN /\ pc' = out.pc
       /\ selected_personas' = out.selected
       /\ error' = IF out.pc = "raised" THEN "selection" ELSE error
       /\ filtered_df' = <<>>
       /\ random_personas' = <<>>

\* "except Exception as e: logger.error(...); raise" of the manager
Raise(what) ==
    /\ pc' = "raised"
    /\ error' = what
    /\ filtered_df' = <<>>
    /\ random_personas' = <<>>

\* WebsiteManager.analyze_website: the scraper raises before any selection
ScrapeRaises ==
    /\ pc = "idle"
    /\ variant = "website"
    /\ Raise("scrape")
    /\ UNCHANGED <<store, call_args, selected_personas, manager_state>>

\* get_selected_personas -> _filter_personas, up to the decision to backfill
\* the filters are applied to self.df itself
StoreAfter_InPlace(v, rows, c, ok) ==
    IF _filter_personas_raises(v, rows, c, ok) THEN rows
    ELSE [i \in DOMAIN _filter_personas(v, rows, c) |-> _filter_personas(v, rows, c)[i].r]

\* self.df after _filter_personas: "filtered_df = self.df.copy()", and the
\* filters, the match-count columns and pd.concat work on the copy
StoreAfter(v, rows, c, ok) == rows

FilterPersonas(c, n, r) ==
    /\ pc = "idle"
    /\ criteria' = c
    /\ num_personas' = n
    /\ randomize_if_insufficient' = r
    /\ IF _filter_personas_raises(variant, df, c, lists_ok)
       THEN SelectionRaises(WebsiteScalarFilter(df, c), <<>>)
       ELSE LET f == _filter_personas(variant, df, c)
            IN /\ filtered_df' = f
               /\ random_personas' = <<>>
               /\ pc' = IF Len(f) < n /\ r THEN "backfill" ELSE "trim"
               /\ UNCHANGED <<error, selected_personas>>
    /\ df' = StoreAfter(variant, df, c, lists_ok)
    /\ UNCHANGED <<variant, lists_ok, frame, unique_values, handles, manager_state>>

\* the values drawn are taken out of the lists of the catalog
CatalogAfterGenerate_Consume(v, uv, p) ==
    IF v = "product" THEN [uv EXCEPT !.hobbies = @ \ p.hobbies]
    ELSE [uv EXCEPT !.expertise_areas = @ \ p.expertise_areas]

\* the catalog after a persona was generated: the rest of a list is a new
\* list ("[h for h in ... if h not in hobbies]") and random.sample returns a
\* new list, so the lists of the catalog are only read
CatalogAfterGenerate(v, uv, p) == uv

\* one turn of "for _ in range(num_random_needed)"
Backfill ==
    /\ pc = "backfill"
    /\ \/ /\ _generate_random_persona_raises(variant, criteria, unique_values)
          /\ SelectionRaises(filtered_df, random_personas)
          /\ UNCHANGED unique_values
       \/ \E p \in _generate_random_persona(variant, criteria, unique_values) :
             /\ random_personas' = Append(random_personas, p)
             /\ unique_values' = CatalogAfterGenerate(variant, unique_values, p)
             /\ pc' = IF Len(filtered_df) + Len(random_personas) + 1 < num_personas
                      THEN "backfill" ELSE "trim"
             /\ UNCHANGED <<error, filtered_df, selected_personas>>
    /\ UNCHANGED <<sheet, handles, call_args, manager_state>>

\* the rest of _filter_personas and the conversion in get_selected_personas
ReturnSelected ==
    /\ pc = "trim"
    /\ \E rows \in Trim(variant, criteria, Concat(filtered_df, random_personas), num_personas) :
          selected_personas' = Profiles(variant, rows)
    /\ pc' = "selected"
    /\ filtered_df' = <<>>
    /\ random_personas' = <<>>
    /\ UNCHANGED <<store, call_args, error, manager_state>>

\* ------------------------------------------------------------ the manager
\* the backend identifiers a caller passes
Providers == {"gemini", "openai", "GEMINI", "cohere"}

\* provider.lower()
lower(p) == IF p = "GEMINI" THEN "gemini" ELSE p

\* an identifier the enum does not know gives no member and no exception
AIProviderRaises_Never(p) == FALSE

\* AIProvider(provider.lower()) raises ValueError outside the enum
AIProviderRaises(p) == lower(p) \notin {"gemini", "openai"}

\* ProductReviewer(...) / WebsiteReviewer(...): the identifier is rejected, or
\* building the client raises, or the reviewer is ready for the loop
InitReviewer(p) ==
    /\ pc = "selected"
    /\ ai_provider' = p
    /\ \/ /\ Raise("provider")
          /\ UNCHANGED <<reviews, calls>>
       \/ /\ ~AIProviderRaises(p)
          /\ pc' = "review"
          /\ reviews' = <<>>
          /\ calls' = <<>>
          /\ UNCHANGED <<error, filtered_df, random_personas>>
    /\ UNCHANGED <<store, call_args, selected_personas, summarized, backend, result>>

\* the dict appended for a persona whose call returned
ReviewEntry(v, persona) ==
    IF v = "product"
    THEN [persona |-> [name |-> persona.name, age |-> persona.age, profession |-> persona.profession,
                       nationality |-> persona.nationality, salary_range |-> persona.salary_range,
                       hobbies |-> persona.hobbies, priorities |-> persona.priorities],
          review |-> "REVIEW"]
    ELSE [persona |-> [profession |-> persona.profession, specialization |-> persona.specialization,
                       years_experience |-> persona.years_experience,
                       expertise_areas |-> persona.expertise_areas,
                       industry_focus |-> persona.industry_focus],
          analysis |-> "REVIEW"]

\* the entry put in front of the list
AfterCall_Prepend(v, list, persona, ok) ==
    IF ok THEN <<ReviewEntry(v, persona)>> \o list ELSE list

\* the list after the body of the loop ran for a persona
AfterCall(v, list, persona, ok) == IF ok THEN Append(list, ReviewEntry(v, persona)) ELSE list

\* the exception of a call leaves the loop
LoopOutcome_Propagate(ok) == IF ok THEN "appended" ELSE "raise"

\* the body of the loop: the entry is appended, or "except Exception as e:
\* logger.error(...); continue"
LoopOutcome(ok) == IF ok THEN "appended" ELSE "continue"

\* "break" in place of "continue": a call that raised ends the loop
Position_Break ==
    IF calls # <<>> /\ ~calls[Len(calls)].ok THEN Len(selected_personas) + 1 ELSE Len(calls) + 1

\* the persona the loop is at: one more than the calls made
Position == Len(calls) + 1

\* one turn of "for persona in selected_personas": the provider call returns
\* and the entry is appended, or it raises and the except clause continues
GenerateReview ==
    /\ pc = "review"
    /\ Position <= Len(selected_personas)
    /\ \E ok \in BOOLEAN :
          /\ reviews' = AfterCall(variant, reviews, selected_personas[Position], ok)
          /\ calls' = Append(calls, [persona |-> Position, ok |-> ok])
          /\ IF LoopOutcome(ok) = "raise"
             THEN pc' = "raised" /\ error' = "review"
             ELSE UNCHANGED <<pc, error>>
    /\ UNCHANGED <<store, call_args, filtered_df, random_personas, selected_personas,
                   ai_provider, summarized, backend, result>>

\* total_personas counted from the reviews
Metadata_CountsReviews(selected, list, provider) ==
    [total_personas |-> Len(list), successful_reviews |-> Len(list), ai_provider |-> provider]

\* the metadata of the returned dict
Metadata(selected, list, provider) ==
    [total_personas |-> Len(selected), successful_reviews |-> Len(list), ai_provider |-> provider]

\* review_texts = [r['review'] for r in reviews]
review_texts(v, list) ==
    [i \in 1..Len(list) |-> IF v = "product" THEN list[i].review ELSE list[i].analysis]

\* the summary is made inside the loop
LoopOver_Inside(position, selected) == position > 1

\* "for persona in selected_personas" has no persona left
LoopOver(position, selected) == position > Len(selected)

\* the loop is over: summarize and return, or leave by the outer except
\* clause when the summarizer raised
Summarize ==
    /\ pc = "review"
    /\ LoopOver(Position, selected_personas)
    /\ summarized' = Some(review_texts(variant, reviews))
    /\ \E b \in RunBackends(variant) :
          LET out == summarize_reviews(variant, b)
          IN /\ backend' = b
             /\ IF out.raised = "none"
                THEN /\ result' = [summary |-> out.summary,
                                   metadata |-> Metadata(selected_personas, reviews, ai_provider)]
                     /\ pc' = "returned"
                     /\ UNCHANGED error
                ELSE /\ result' = NoResult
                     /\ pc' = "raised"
                     /\ error' = "summary"
    /\ UNCHANGED <<store, call_args, filtered_df, random_personas, selected_personas,
                   ai_provider, reviews, calls>>

\* the caller has the result or the error; the next run or call starts
Done(ends) ==
    /\ pc \in ends
    /\ pc' = "idle"
    /\ error' = "none"
    /\ criteria' = NoCriteria
    /\ num_personas' = 0
    /\ randomize_if_insufficient' = FALSE
    /\ filtered_df' = <<>>
    /\ random_personas' = <<>>
    /\ selected_personas' = <<>>
    /\ ai_provider' = "none"
    /\ reviews' = <<>>
    /\ calls' = <<>>
    /\ summarized' = None
    /\ backend' = Raises
    /\ result' = NoResult
    /\ UNCHANGED store

\* a run of Manager.generate_product_reviews / WebsiteManager.analyze_website ended
NextRun == Done({"returned", "raised"})

\* a call of get_selected_personas ended
NextCall == Done({"selected", "raised"})

\* the personas a call with these arguments has to synthesize
Needed(c, n, r) ==
    IF r /\ ~_filter_personas_raises(variant, df, c, lists_ok)
    THEN n - Len(_filter_personas(variant, df, c)) ELSE 0

\* the runs of the manager
Next ==
    \/ ScrapeRaises
    \/ pc = "idle" /\ \E c \in RunCriteriaSet(variant), n \in 0..MaxCount, r \in BOOLEAN :
                         Needed(c, n, r) <= MaxSynth /\ FilterPersonas(c, n, r)
    \/ Backfill
    \/ ReturnSelected
    \/ pc = "selected" /\ \E p \in Providers : InitReviewer(p)
    \/ GenerateReview
    \/ Summarize
    \/ NextRun

Spec == Init /\ [][Next]_vars

\* the calls of get_selected_personas on their own
SelectorNext ==
    \/ pc = "idle" /\ \E c \in CriteriaSet(variant), n \in 0..MaxCount, r \in BOOLEAN :
                         Needed(c, n, r) <= MaxSynth /\ FilterPersonas(c, n, r)
    \/ Backfill
    \/ ReturnSelected
    \/ NextCall

SelectorSpec == Init /\ [][SelectorNext]_vars

\* a call of summarize_reviews / summarize_analyses on its own
SummarizeReviews(texts, b) ==
    /\ pc = "idle"
    /\ summarized' = Some(texts)
    /\ backend' = b
    /\ LET out == summarize_reviews(variant, b)
       IN /\ result' = [summary |-> out.summary]
          /\ pc' = IF out.raised = "none" THEN "summarized" ELSE "raised"
          /\ error' = IF out.raised = "none" THEN error ELSE "summary"
    /\ UNCHANGED <<store, call_args, filtered_df, random_personas, selected_personas,
                   ai_provider, reviews, calls>>

\* a call of from_json on its own
FromJson(json_str) ==
    /\ pc = "idle"
    /\ backend' = Returns(json_str)
    /\ LET out == from_json(variant, json_str)
       IN /\ result' = [summary |-> out.summary]
          /\ pc' = IF out.raised = "none" THEN "parsed" ELSE "raised"
          /\ error' = IF out.raised = "none" THEN error ELSE "from_json"
    /\ UNCHANGED <<store, call_args, filtered_df, random_personas, selected_personas,
                   ai_provider, reviews, calls, summarized>>

\* from_json(s.to_json()) of the summary s a call returned
RoundTrip ==
    /\ pc \in {"summarized", "parsed"}
    /\ backend' = Returns(to_json(variant, result.summary))
    /\ LET out == from_json(variant, to_json(variant, result.summary))
       IN /\ result' = [summary |-> out.summary, of |-> result.summary]
          /\ pc' = IF out.raised = "none" THEN "reparsed" ELSE "raised"
          /\ error' = IF out.raised = "none" THEN error ELSE "from_json"
    /\ UNCHANGED <<store, call_args, filtered_df, random_personas, selected_personas,
                   ai_provider, reviews, calls, summarized>>

\* a call of the summarizer or of the parser ended
NextSummary == Done({"summarized", "parsed", "reparsed", "raised"})

\* the calls of the summarizer and of the parser on their own
SummarizerNext ==
    \/ pc = "idle" /\ \E texts \in Seqs({"REVIEW"}, MaxCount), b \in Backends(variant) :
                         SummarizeReviews(texts, b)
    \/ pc = "idle" /\ \E json_str \in Contents(variant) : FromJson(json_str)
    \/ RoundTrip
    \/ NextSummary

SummarizerSpec == Init /\ [][SummarizerNext]_vars

\* ------------------------------------------------------------ the catalog
\* an entry of a mapping: the list object of the catalog under this field,
\* shared with the selector, or a list of the caller's own
Shared(field) == [shared |-> TRUE, field |-> field, values |-> {}]

Own(values) == [shared |-> FALSE, field |-> "", values |-> values]

\* dict.copy(): a new mapping whose values are the same list objects
dict_copy(uv) == [k \in DOMAIN uv |-> Shared(k)]

\* PersonaSelector.get_unique_values / WebsitePersonaSelector.get_unique_values
get_unique_values(uv) == dict_copy(uv)

\* the distinct values a caller reads in a mapping
View(mapping, uv) ==
    [k \in DOMAIN mapping |-> IF mapping[k].shared THEN uv[mapping[k].field] ELSE mapping[k].values]

\* Manager.get_available_persona_criteria: between two calls of the
\* selector, or while the caller holds the personas of one
GetUniqueValues ==
    /\ pc \in {"idle", "selected"}
    /\ Len(catalog_seen) < MaxGets
    /\ returned' = Some(get_unique_values(unique_values))
    /\ catalog_seen' = Append(catalog_seen,
                              [at |-> pc, values |-> View(get_unique_values(unique_values), unique_values)])
    /\ UNCHANGED <<sheet, unique_values, call_args, pc, error, filtered_df, random_personas,
                   selected_personas, manager_state>>

\* the field whose list the caller of the model works on: the first one the
\* backfill samples from
CallerField(v) == IF v = "product" THEN "hobbies" ELSE "expertise_areas"

\* list.append(x) on the list an entry refers to
list_append(mapping, uv, k, x) ==
    IF mapping[k].shared
    THEN [mapping |-> mapping, uv |-> [uv EXCEPT ![mapping[k].field] = @ \cup {x}]]
    ELSE [mapping |-> [mapping EXCEPT ![k].values = @ \cup {x}], uv |-> uv]

\* the caller appends a value to a list of the mapping it was given
CallerAppends ==
    /\ pc = "idle"
    /\ returned # None
    /\ LET out == list_append(returned[1], unique_values, CallerField(variant), "injected")
       IN /\ returned' = Some(out.mapping)
          /\ unique_values' = out.uv
    /\ <<returned, unique_values>> # <<returned', unique_values'>>
    /\ UNCHANGED <<sheet, catalog_seen, call_args, pc, error, filtered_df, random_personas,
                   selected_personas, manager_state>>

\* the caller puts a list of its own under a key of the mapping it was given
CallerAssigns ==
    /\ pc = "idle"
    /\ returned # None
    /\ returned[1][CallerField(variant)].shared
    /\ returned' = Some([returned[1] EXCEPT ![CallerField(variant)] = Own({"injected"})])
    /\ UNCHANGED <<sheet, unique_values, catalog_seen, call_args, pc, error, filtered_df,
                   random_personas, selected_personas, manager_state>>

\* the selector with callers that read the catalog
CatalogNext ==
    \/ pc = "idle" /\ \E c \in RunCriteriaSet(variant), n \in 0..MaxCount, r \in BOOLEAN :
                         Needed(c, n, r) <= MaxSynth /\ FilterPersonas(c, n, r)
    \/ Backfill
    \/ ReturnSelected
    \/ NextCall
    \/ GetUniqueValues

CatalogSpec == Init /\ [][CatalogNext]_vars

\* the selector with callers that also write to what they were given
SharedCatalogNext ==
    \/ CatalogNext
    \/ CallerAppends
    \/ CallerAssigns

SharedCatalogSpec == Init /\ [][SharedCatalogNext]_vars

\* ------------------------------------------------------------ the reviewer
\* a configuration mapping is a set of <<key, value>> pairs with one pair per
\* key; values are written as text
ConfigKeys(config) == {p[1] : p \in config}

\* {**default_config, **self.model_config} with the defaults written last
Overlay_DefaultsWin(default_config, model_config) ==
    default_config \cup {p \in model_config : p[1] \notin ConfigKeys(default_config)}

\* {**default_config, **self.model_config}
Overlay(default_config, model_config) ==
    model_config \cup {p \in default_config : p[1] \notin ConfigKeys(model_config)}

\* default_config of _initialize_model for a member of AIProvider
default_config(v, provider, api_key) ==
    IF provider = "gemini"
    THEN {<<"model", IF v = "product" THEN "gemini-1.5-pro" ELSE "gemini-1.5-flash">>,
          <<"temperature", "0.7">>, <<"google_api_key", api_key>>}
    ELSE {<<"model", "gpt-4o-mini">>, <<"temperature", "0.7">>, <<"openai_api_key", api_key>>}

ApiKeys == {"key-1", "key-2"}

\* the model_config arguments of a caller: absent, empty, and overrides of the
\* model, of the temperature (one of them no number) and of a key that has no
\* default
ModelConfigs ==
    {None, Some({}), Some({<<"model", "custom">>}), Some({<<"temperature", "hot">>}),
     Some({<<"temperature", "0.2">>, <<"max_tokens", "256">>})}

Requests == [op : {"new", "switch"}, provider : Providers, api_key : ApiKeys,
             model_config : ModelConfigs]

\* model_config or {}
or_empty(model_config) == IF model_config # None /\ model_config[1] # {} THEN model_config[1] ELSE {}

\* ChatGoogleGenerativeAI(**config) / ChatOpenAI(**config) validate their
\* fields: a temperature that is no number is refused
ClientRaises(config) == \E p \in config : p[1] = "temperature" /\ p[2] \notin {"0.7", "0.2"}

\* the client _initialize_model builds
Client(v, provider, api_key, model_config) ==
    [class |-> IF provider = "gemini" THEN "ChatGoogleGenerativeAI" ELSE "ChatOpenAI",
     config |-> Overlay(default_config(v, provider, api_key), model_config)]

_initialize_model_raises(v, provider, api_key, model_config) ==
    ClientRaises(Overlay(default_config(v, provider, api_key), model_config))

NoClient == [class |-> "None", config |-> {}]

\* the overrides of the switch are added to the ones the reviewer has
NewModelConfig_Merge(old, new) == Overlay(old, or_empty(new))

\* switch_provider: self.model_config = new_model_config or {}
NewModelConfig(old, new) == or_empty(new)

\* the fields of a reviewer after the three assignments and _initialize_model:
\* the assignments are made before the client is built, and a client that
\* cannot be built leaves self.model as it was
Assigned(v, old_model, provider, api_key, model_config) ==
    [provider |-> provider, api_key |-> api_key, model_config |-> model_config,
     model |-> IF _initialize_model_raises(v, provider, api_key, model_config) THEN old_model
               ELSE Client(v, provider, api_key, model_config)]

\* before ProductReviewer(...) / WebsiteReviewer(...)
ReviewerInit ==
    /\ variant \in {"product", "website"}
    /\ source = NoSource
    /\ lists_ok = TRUE
    /\ df = <<>>
    /\ unique_values = _cache_unique_values(variant, <<>>)
    /\ reviewer = None
    /\ sessions = <<>>
    /\ request = NoRequest
    /\ returned = None
    /\ catalog_seen = <<>>
    /\ pc = "no reviewer"
    /\ error = "none"
    /\ criteria = NoCriteria
    /\ num_personas = 0
    /\ randomize_if_insufficient = FALSE
    /\ filtered_df = <<>>
    /\ random_personas = <<>>
    /\ selected_personas = <<>>
    /\ ai_provider = "none"
    /\ reviews = <<>>
    /\ calls = <<>>
    /\ summarized = None
    /\ backend = Raises
    /\ result = NoResult

ReviewerFrame ==
    UNCHANGED <<variant, df, lists_ok, source, unique_values, handles, call_args, filtered_df,
                random_personas, selected_personas, manager_state>>

\* ProductReviewer.__init__ / WebsiteReviewer.__init__: an exception leaves
\* the caller without a reviewer
NewReviewer(provider, api_key, model_config) ==
    /\ pc = "no reviewer"
    /\ request' = [op |-> "new", provider |-> provider, api_key |-> api_key,
                   model_config |-> model_config]
    /\ IF AIProviderRaises(provider)
       THEN error' = "provider" /\ UNCHANGED <<pc, reviewer>>
       ELSE IF _initialize_model_raises(variant, lower(provider), api_key, or_empty(model_config))
       THEN error' = "client" /\ UNCHANGED <<pc, reviewer>>
       ELSE /\ error' = "none"
            /\ pc' = "constructed"
            /\ reviewer' = Some(Assigned(variant, NoClient, lower(provider), api_key,
                                         or_empty(model_config)))
    /\ UNCHANGED sessions
    /\ ReviewerFrame

\* the session of generate_review: the answer of the client in use
Session(r) == [final_review |-> <<"REVIEW", r.model.class, r.model.config>>,
               messages |-> <<[role |-> "ai", content |-> <<"REVIEW", r.model.class, r.model.config>>]>>]

\* generate_review
GenerateSession ==
    /\ pc \in {"constructed", "switched", "generated"}
    /\ Len(sessions) < MaxSessions
    /\ pc' = "generated"
    /\ error' = "none"
    /\ sessions' = Append(sessions, Session(reviewer[1]))
    /\ UNCHANGED <<reviewer, request>>
    /\ ReviewerFrame

\* switch_provider: AIProvider(...) raises before anything is assigned, or the
\* three fields are assigned and _initialize_model builds the client or raises
SwitchProvider(new_provider, new_api_key, new_model_config) ==
    /\ pc \in {"constructed", "switched", "generated"}
    /\ pc' = "switched"
    /\ request' = [op |-> "switch", provider |-> new_provider, api_key |-> new_api_key,
                   model_config |-> new_model_config]
    /\ IF AIProviderRaises(new_provider)
       THEN error' = "provider" /\ UNCHANGED reviewer
       ELSE /\ reviewer' = Some(Assigned(variant, reviewer[1].model, lower(new_provider), new_api_key,
                                         NewModelConfig(reviewer[1].model_config, new_model_config)))
            /\ error' = IF _initialize_model_raises(variant, lower(new_provider), new_api_key,
                                                    NewModelConfig(reviewer[1].model_config,
                                                                   new_model_config))
                        THEN "client" ELSE "none"
    /\ UNCHANGED sessions
    /\ ReviewerFrame

ReviewerNext ==
    \/ \E q \in Requests : NewReviewer(q.provider, q.api_key, q.model_config)
    \/ GenerateSession
    \/ \E q \in Requests : SwitchProvider(q.provider, q.api_key, q.model_config)

ReviewerSpec == ReviewerInit /\ [][ReviewerNext]_vars

\* ------------------------------------------------------------ the load
\* before PersonaSelector(excel_path) / WebsitePersonaSelector(excel_path)
LoadInit ==
    /\ variant \in {"product", "website"}
    /\ source \in Sources(variant)
    /\ lists_ok = TRUE
    /\ df = <<>>
    /\ unique_values = _cache_unique_values(variant, <<>>)
    /\ reviewer = None
    /\ sessions = <<>>
    /\ request = NoRequest
    /\ returned = None
    /\ catalog_seen = <<>>
    /\ pc = "unloaded"
    /\ error = "none"
    /\ criteria = NoCriteria
    /\ num_personas = 0
    /\ randomize_if_insufficient = FALSE
    /\ filtered_df = <<>>
    /\ random_personas = <<>>
    /\ selected_personas = <<>>
    /\ ai_provider = "none"
    /\ reviews = <<>>
    /\ calls = <<>>
    /\ summarized = None
    /\ backend = Raises
    /\ result = NoResult

\* PersonaSelector.__init__ / WebsitePersonaSelector.__init__: the schema
\* check or the caching raises and the except clause re-raises, or the
\* selector is built
Load ==
    /\ pc = "unloaded"
    /\ IF prepare_dataframe_raises(variant, source) \/ cache_raises(variant, source)
       THEN /\ pc' = "raised"
            /\ error' = IF prepare_dataframe_raises(variant, source) THEN "schema" ELSE "cache"
            /\ UNCHANGED <<df, lists_ok, unique_values>>
       ELSE /\ pc' = "idle"
            /\ df' = prepare_dataframe(variant, source)
            /\ lists_ok' = ListColumnIsObject(source)
            /\ unique_values' = _cache_unique_values(variant, prepare_dataframe(variant, source))
            /\ UNCHANGED error
    /\ UNCHANGED <<variant, frame, handles, call_args, filtered_df, random_personas,
                   selected_personas, manager_state>>

\* the caller takes another sheet
NextSource ==
    /\ pc \in {"idle", "raised"}
    /\ source # NoSource
    /\ pc' = "unloaded"
    /\ error' = "none"
    /\ source' \in {src \in Sources(variant) : src.n = source.n}
    /\ df' = <<>>
    /\ lists_ok' = TRUE
    /\ unique_values' = _cache_unique_values(variant, <<>>)
    /\ UNCHANGED <<variant, reviewer, sessions, request, handles, call_args, filtered_df,
                   random_personas, selected_personas, manager_state>>

LoadNext == Load \/ NextSource

LoadSpec == LoadInit /\ [][LoadNext]_vars

\* ------------------------------------------------------------ the claims
\* a range constraint is present when it is not None, an allow-list or a
\* desired set when it is a non-empty list

InRange(x, range) == range = None \/ (range[1][1] <= x /\ x <= range[1][2])

Allowed(x, allowed) == ~Truthy(allowed) \/ \E i \in DOMAIN allowed[1] : allowed[1][i] = x

Common(xs, desired) == {x \in xs : \E i \in DOMAIN desired[1] : desired[1][i] = x}

Enough(xs, desired, threshold) == ~Truthy(desired) \/ Cardinality(Common(xs, desired)) >= threshold

\* the row satisfies every present constraint of the criteria
Matches(r, c) ==
    IF variant = "product"
    THEN /\ InRange(r.age, c.age_range)
         /\ Allowed(r.profession, c.professions)
         /\ Allowed(r.nationality, c.nationalities)
         /\ Allowed(r.salary_range, c.salary_ranges)
         /\ Enough(r.hobbies, c.desired_hobbies, c.min_matching_hobbies)
         /\ Enough(r.priorities, c.desired_priorities, c.min_matching_priorities)
    ELSE /\ InRange(r.age, c.age_range)
         /\ InRange(r.years_experience, c.experience_range)
         /\ Allowed(r.profession, c.profession)
         /\ Allowed(r.industry_focus, c.industry_focus)
         /\ Enough(r.expertise_areas, c.expertise_areas, c.min_matching_specializations)

\* the rows of the store that match the criteria of the call
MatchingRows == {i \in DOMAIN df : Matches(df[i], criteria)}

\* the synthesized personas of the result (their row is 0)
Synthesized == {j \in DOMAIN selected_personas : selected_personas[j].row = 0}

\* C1: a call that returns hands back exactly num_personas personas when
\* randomize_if_insufficient is set or at least num_personas rows match, and
\* otherwise as many personas as rows match
C1_Length ==
    pc = "selected" =>
        Len(selected_personas) =
            IF randomize_if_insufficient \/ Cardinality(MatchingRows) >= num_personas
            THEN num_personas
            ELSE Cardinality(MatchingRows)

\* a call that had to backfill has returned
C1_Witness ==
    /\ pc = "selected"
    /\ randomize_if_insufficient
    /\ Cardinality(MatchingRows) < num_personas
    /\ MatchingRows # {}

\* the scalar constraints on a synthesized row or persona
ScalarsRespected(p, c) ==
    IF variant = "product"
    THEN /\ InRange(p.age, c.age_range)
         /\ Allowed(p.profession, c.professions)
         /\ Allowed(p.nationality, c.nationalities)
         /\ Allowed(p.salary_range, c.salary_ranges)
    ELSE /\ InRange(p.age, c.age_range)
         /\ InRange(p.years_experience, c.experience_range)
         /\ Allowed(p.profession, c.profession)
         /\ Allowed(p.industry_focus, c.industry_focus)

\* C2: every synthesized persona, while the call builds it and in the result,
\* has its age (and years of experience) inside the requested range and its
\* profession, nationality, salary range and industry focus in the requested
\* allow-list, for each of these constraints that is present
C2_SynthesizedScalars ==
    /\ \A i \in DOMAIN random_personas : ScalarsRespected(random_personas[i], criteria)
    /\ pc = "selected" => \A j \in Synthesized : ScalarsRespected(selected_personas[j], criteria)

\* a synthesized persona was returned under a range and an allow-list
C2_Witness ==
    /\ pc = "selected"
    /\ Synthesized # {}
    /\ criteria.age_range # None
    /\ Truthy(IF variant = "product" THEN criteria.professions ELSE criteria.profession)

\* C3: every synthesized persona shares at least the minimum-match threshold
\* of values with each present desired set, whatever the threshold and the
\* size of the desired set
C3_SynthesizedThresholds ==
    \A i \in DOMAIN random_personas :
        IF variant = "product"
        THEN /\ Enough(random_personas[i].hobbies, criteria.desired_hobbies,
                       criteria.min_matching_hobbies)
             /\ Enough(random_personas[i].priorities, criteria.desired_priorities,
                       criteria.min_matching_priorities)
        ELSE Enough(random_personas[i].expertise_areas, criteria.expertise_areas,
                    criteria.min_matching_specializations)

\* the fields of a returned persona are those of the row of the store
SameRecord(p, r) ==
    IF variant = "product"
    THEN /\ p.name = r.name /\ p.age = r.age /\ p.profession = r.profession
         /\ p.nationality = r.nationality /\ p.salary_range = r.salary_range
         /\ p.hobbies = r.hobbies /\ p.priorities = r.priorities /\ p.constraints = r.constraints
    ELSE /\ p.age = r.age /\ p.profession = r.profession
         /\ p.years_experience = r.years_experience /\ p.expertise_areas = r.expertise_areas
         /\ p.technical_skills = r.specializations /\ p.industry_focus = r.industry_focus

\* C4: with backfill disabled the result holds at most num_personas personas,
\* each of them is a row of the store that matches the criteria, and no row
\* is returned twice
C4_NoBackfill ==
    (pc = "selected" /\ ~randomize_if_insufficient) =>
        /\ Len(selected_personas) <= num_personas
        /\ \A j \in DOMAIN selected_personas :
              /\ selected_personas[j].row \in MatchingRows
              /\ SameRecord(selected_personas[j], df[selected_personas[j].row])
        /\ \A j, k \in DOMAIN selected_personas :
              j # k => selected_personas[j].row # selected_personas[k].row

\* a call without backfill trimmed its matches
C4_Witness ==
    /\ pc = "selected"
    /\ ~randomize_if_insufficient
    /\ selected_personas # <<>>
    /\ Cardinality(MatchingRows) > num_personas

\* the filter of the call has run
Filtered == pc \in {"backfill", "trim"}

\* C5: the rows the filter keeps are exactly the rows of the store that
\* satisfy every present constraint, each kept once
C5_FilterIsConjunction ==
    Filtered =>
        /\ \A i \in DOMAIN df :
              (\E k \in DOMAIN filtered_df : filtered_df[k].r = df[i]) <=> i \in MatchingRows
        /\ Len(filtered_df) = Cardinality(MatchingRows)

\* a filter kept a row with a boundary age and a desired value, and dropped another
C5_Witness ==
    /\ Filtered
    /\ criteria.age_range # None
    /\ MatchingRows # {}
    /\ MatchingRows # DOMAIN df
    /\ \E i \in MatchingRows : df[i].age = criteria.age_range[1][2]

\* the sum of the match scores of a row over the present desired sets
TotalScore(r, c) ==
    IF variant = "product"
    THEN (IF Truthy(c.desired_hobbies) THEN Cardinality(Common(r.hobbies, c.desired_hobbies)) ELSE 0)
         + (IF Truthy(c.desired_priorities)
            THEN Cardinality(Common(r.priorities, c.desired_priorities)) ELSE 0)
    ELSE IF Truthy(c.expertise_areas)
         THEN Cardinality(Common(r.expertise_areas, c.expertise_areas)) ELSE 0

AnyDesired(c) ==
    IF variant = "product"
    THEN Truthy(c.desired_hobbies) \/ Truthy(c.desired_priorities)
    ELSE Truthy(c.expertise_areas)

\* the call had more matches than num_personas and a desired set to rank by
Ranked == pc = "selected" /\ Cardinality(MatchingRows) > num_personas /\ AnyDesired(criteria)

\* C6: when more rows match than num_personas and a desired set is present,
\* the result is num_personas matching rows, no matching row left out has a
\* greater total score than a row kept, and the result is in descending order
\* of total score
C6_TopScores ==
    Ranked =>
        /\ Len(selected_personas) = num_personas
        /\ \A j \in DOMAIN selected_personas : selected_personas[j].row \in MatchingRows
        /\ \A i \in MatchingRows :
              (\A j \in DOMAIN selected_personas : selected_personas[j].row # i) =>
                  \A j \in DOMAIN selected_personas :
                      TotalScore(df[i], criteria) <= TotalScore(df[selected_personas[j].row], criteria)
        /\ \A j, k \in DOMAIN selected_personas :
              j < k => TotalScore(df[selected_personas[j].row], criteria)
                       >= TotalScore(df[selected_personas[k].row], criteria)

\* a ranked result left out a row of lower score that comes earlier in the store
C6_Witness ==
    /\ Ranked
    /\ \E i \in MatchingRows, j \in DOMAIN selected_personas :
          /\ \A k \in DOMAIN selected_personas : selected_personas[k].row # i
          /\ i < selected_personas[j].row
          /\ TotalScore(df[i], criteria) < TotalScore(df[selected_personas[j].row], criteria)

\* C7: in the result of a call no two synthesized personas have the same name
\* and no synthesized persona has the name of a row of the store
C7_UniqueNames ==
    (pc = "selected" /\ variant = "product") =>
        /\ \A j, k \in Synthesized : j # k => selected_personas[j].name # selected_personas[k].name
        /\ \A j \in Synthesized : \A i \in DOMAIN df : selected_personas[j].name # df[i].name

\* a step in which the selection fails: the filter raises on the criteria of
\* the call, or a turn of the backfill loop ends the loop without a persona
SelectionFailure ==
    \/ pc = "idle" /\ pc' # "idle" /\ _filter_personas_raises(variant, df, criteria', lists_ok)
    \/ pc = "backfill" /\ pc' \notin {"backfill", "trim"}

\* C8: a selection call in which anything fails raises and returns no persona,
\* not even those filtered or synthesized before the failure
C8_FailsWhole ==
    [][SelectionFailure => (pc' = "raised" /\ error' = "selection" /\ selected_personas' = <<>>)]_vars

\* a call failed in the backfill after its filter had kept rows
C8_Witness ==
    /\ pc = "raised"
    /\ error = "selection"
    /\ randomize_if_insufficient
    /\ MatchingRows # {}
    /\ selected_personas = <<>>

\* the provider calls that returned, in the order they were made
Succeeded == SelectSeq(calls, LAMBDA call : call.ok)

\* C9: the reviews of the manager are the entries of the personas whose
\* provider call returned, in the order of the selection, whatever subset of
\* the calls raised
C9_ReviewsInOrder ==
    pc \in {"review", "returned"} =>
        /\ \A i \in DOMAIN calls : calls[i].persona = i
        /\ reviews = [k \in 1..Len(Succeeded) |->
                         ReviewEntry(variant, selected_personas[Succeeded[k].persona])]

\* a run of three personas in which only the second call raised
C9_Witness ==
    /\ pc = "returned"
    /\ Len(calls) = 3
    /\ calls[1].ok /\ ~calls[2].ok /\ calls[3].ok
    /\ Len(reviews) = 2
    /\ reviews[1] # reviews[2]

\* C10: the metadata of a returned result give the number of personas
\* selected and the number of calls that returned; the second is at most the
\* first, and their difference is the number of calls that raised
C10_Metadata ==
    pc = "returned" =>
        LET m == result.metadata
        IN /\ m.total_personas = Len(selected_personas)
           /\ m.successful_reviews = Cardinality({i \in DOMAIN calls : calls[i].ok})
           /\ m.successful_reviews <= m.total_personas
           /\ m.total_personas - m.successful_reviews = Cardinality({i \in DOMAIN calls : ~calls[i].ok})

\* a result was returned after one call raised and another returned
C10_Witness ==
    /\ pc = "returned"
    /\ \E i, j \in DOMAIN calls : calls[i].ok /\ ~calls[j].ok

\* C11: in a run that reached the loop the provider calls made so far are one
\* per persona, in selection order, whether the earlier calls returned or
\* raised, and the run returns only after one call for every selected persona
C11_OncePerPersona ==
    pc \in {"review", "returned"} =>
        /\ \A i \in 1..Len(calls) : calls[i].persona = i
        /\ Len(calls) <= Len(selected_personas)
        /\ pc = "returned" => Len(calls) = Len(selected_personas)

\* a run returned after the first call raised and a later persona was called
C11_Witness ==
    /\ pc = "returned"
    /\ Len(calls) >= 2
    /\ ~calls[1].ok
    /\ calls[Len(calls)].persona = Len(selected_personas)

\* C12: once the selection returned and the reviewer is built the run does
\* not raise: it stays in the loop or returns a result, whatever the calls and
\* the backend of the summarizer do; the summarizer is invoked before the
\* return, with the empty list and a count of 0 when every call raised, and
\* an answer that holds no JSON leaves the fallback summary in the result
C12_RunCompletes ==
    [][pc = "review" =>
          /\ pc' \in {"review", "returned"}
          /\ pc' = "returned" =>
                /\ summarized' # None
                /\ (\A i \in DOMAIN calls : ~calls[i].ok) =>
                      /\ summarized' = Some(<<>>)
                      /\ result'.metadata.successful_reviews = 0
                /\ (~backend'.raises /\ \A i \in DOMAIN backend'.content : backend'.content[i] # LB) =>
                      result'.summary = UnableToParse(variant)]_vars

\* a run returned after every call raised and the answer of the summarizer
\* held no JSON
C12_Witness ==
    /\ pc = "returned"
    /\ Len(calls) >= 2
    /\ \A i \in DOMAIN calls : ~calls[i].ok
    /\ summarized = Some(<<>>)
    /\ backend = Returns(<<Prose>>)
    /\ result.summary = UnableToParse(variant)

\* a step in which the reviewer is built for an identifier that names neither
\* backend
UnknownProvider == pc = "selected" /\ pc' # "selected" /\ lower(ai_provider') \notin {"gemini", "openai"}

\* a step of a run in which the selection fails
RunSelectionFailure ==
    \/ pc = "idle" /\ DOMAIN criteria' # DOMAIN NoCriteria /\ SelectionFailure
    \/ pc = "backfill" /\ SelectionFailure

\* C13: a run whose selection raises, or whose provider identifier names
\* neither gemini nor openai, fails: it returns no result, has made no
\* provider call and has not invoked the summarizer
C13_FatalBeforeLoop ==
    [][(RunSelectionFailure \/ UnknownProvider) =>
          /\ pc' = "raised"
          /\ error' \in {"selection", "provider"}
          /\ result' = NoResult
          /\ calls' = <<>>
          /\ summarized' = None]_vars

\* a run failed on the identifier after its selection had returned personas
C13_Witness ==
    /\ pc = "raised"
    /\ error = "provider"
    /\ ai_provider = "cohere"
    /\ selected_personas # <<>>
    /\ calls = <<>>
    /\ result = NoResult

\* a step that is a call of the summarizer, a step that is a call of from_json
SummarizerCall == pc = "idle" /\ pc' # "idle" /\ summarized' # None

ParserCall == pc = "idle" /\ pc' # "idle" /\ summarized' = None

\* C14: a call of the summarizer returns a summary with the nine fields and
\* does not raise, for every list of review texts, the empty one included,
\* whether the backend raises or returns any text
C14_SummarizerNeverRaises ==
    [][SummarizerCall =>
          /\ pc' = "summarized"
          /\ DOMAIN result'.summary = FieldSet(variant)]_vars

\* the summarizer returned its default summary for the empty list after the
\* backend raised
C14_Witness ==
    /\ pc = "summarized"
    /\ summarized = Some(<<>>)
    /\ backend = Raises
    /\ result.summary = ErrorProcessing(variant)

\* C15: from_json returns the fallback summary and does not raise when no
\* JSON value can be decoded from the first brace of the text on, when the
\* value decoded is not an object, and when the object lacks a field
C15_Fallback ==
    [][ParserCall =>
          LET r == Decoded(backend'.content)
          IN (~r.ok \/ r.value.kind # "dict" \/ ~(FieldSet(variant) \subseteq Keys(r.value.d))) =>
                /\ pc' = "parsed"
                /\ result'.summary = UnableToParse(variant)]_vars

\* from_json returned the fallback for an object that lacks one field
C15_Witness ==
    /\ pc = "parsed"
    /\ summarized = None
    /\ backend = Returns(dumps(Without(Items(variant, SampleSummary(variant, 0, 0)), "detailed_summary")))
    /\ result.summary = UnableToParse(variant)

\* the text is this commentary, an object with exactly the fields of the
\* summary s, and any text after it
Answer(text, commentary, s) ==
    \E rest \in {<<>>, <<Prose>>, <<Digit(7)>>} : text = commentary \o to_json(variant, s) \o rest

\* C16 as claimed: whatever the commentary before a valid object with exactly
\* the required fields, from_json returns the summary made of its values
C16_AnyCommentary ==
    pc = "parsed" =>
        \A commentary \in Seqs({Prose, LB}, MaxProse), a, b \in Scores :
            Answer(backend.content, commentary, SampleSummary(variant, a, b)) =>
                result.summary = SampleSummary(variant, a, b)

\* C16 amended: when the commentary before the object holds no opening
\* brace, from_json returns the summary made of the values of the object
C16_CommentaryWithoutBrace ==
    pc = "parsed" =>
        \A commentary \in Seqs({Prose}, MaxProse), a, b \in Scores :
            Answer(backend.content, commentary, SampleSummary(variant, a, b)) =>
                result.summary = SampleSummary(variant, a, b)

\* from_json returned the values of an object that came after commentary and
\* before more text
C16_Witness ==
    /\ pc = "parsed"
    /\ backend = Returns(<<Prose>> \o to_json(variant, SampleSummary(variant, 100, 0)) \o <<Prose>>)
    /\ result.summary = SampleSummary(variant, 100, 0)

\* C17: the summary parsed from the JSON form of a summary, a default one
\* included, is that summary field for field, and the parse does not raise
C17_RoundTrip ==
    [][(pc \in {"summarized", "parsed"} /\ pc' # "idle") =>
          /\ pc' = "reparsed"
          /\ result'.of = result.summary
          /\ \A f \in FieldSet(variant) : result'.summary[f] = result.summary[f]]_vars

\* a summary with a mapping of insights went through to_json and from_json
C17_Witness ==
    /\ pc = "reparsed"
    /\ result.of = SampleSummary(variant, 100, 0)
    /\ result.summary = result.of
    /\ backend.content = to_json(variant, result.of)

\* C18: the two percentage scores of a summary the summarizer returned are
\* numbers from 0 to 100
C18_ScoresInRange ==
    pc = "summarized" =>
        \A f \in ScoreFields(variant) :
            /\ result.summary[f].kind = "num"
            /\ 0 <= result.summary[f].n
            /\ result.summary[f].n <= 100

\* C19: all the calls of get_unique_values made so far returned the same
\* distinct values for every field, whatever selection calls, with or without
\* backfill, were made between them
C19_SameCatalog ==
    \A i, j \in DOMAIN catalog_seen : catalog_seen[i].values = catalog_seen[j].values

\* the catalog was read before a selection call and again after the call had
\* synthesized a persona
C19_Witness ==
    /\ pc = "selected"
    /\ Synthesized # {}
    /\ Len(catalog_seen) = 2
    /\ catalog_seen[1].at = "idle"
    /\ catalog_seen[2].at = "selected"

\* C20: whatever a caller does to the mapping it was given and to the lists
\* in it, the pool the backfill samples from and what every call of
\* get_unique_values returned are the distinct values of the store
C20_ReadOnlyCatalog ==
    /\ unique_values = _cache_unique_values(variant, df)
    /\ \A i \in DOMAIN catalog_seen : catalog_seen[i].values = _cache_unique_values(variant, df)

\* C21: the construction of a selector from a sheet that lacks a required
\* column raises and leaves no selector, and the schema check is what fails
\* the construction exactly when a required column is missing
C21_SchemaCheck ==
    pc \in {"idle", "raised"} /\ source # NoSource =>
        /\ source.missing # {} => (pc = "raised" /\ df = <<>>)
        /\ error = "schema" <=> source.missing # {}

\* a sheet that lacks its last required column was refused
C21_Witness ==
    /\ pc = "raised"
    /\ error = "schema"
    /\ source.missing \in {{"constraints"}, {"industry_focus"}}
    /\ source.n >= 1

\* C22: in a store that was loaded every record has a value in every
\* required field, and a sheet with an empty cell in a required field of a
\* record is not loaded
C22_NoNulls ==
    pc = "idle" /\ source # NoSource =>
        /\ \A i \in DOMAIN df :
              /\ df[i][ScalarColumn(variant)] # "nan"
              /\ df[i][ListColumn(variant)] # {"nan"}
        /\ source.n >= 1 => source.empty = "none"

\* the pairs of a configuration that the caller wrote
FromCaller(config, given) == {p \in config : p[1] \in ConfigKeys(given)}

\* the configuration the reviewer was asked for: of every key the caller's
\* value if the caller gave one, the default of the backend otherwise
Asked(q) ==
    LET given == IF q.model_config = None THEN {} ELSE q.model_config[1]
        defaults == default_config(variant, lower(q.provider), q.api_key)
    IN /\ ConfigKeys(reviewer[1].model.config) = ConfigKeys(given) \cup ConfigKeys(defaults)
       /\ FromCaller(reviewer[1].model.config, given) = given
       /\ reviewer[1].model.config \ FromCaller(reviewer[1].model.config, given) \subseteq defaults

Built == pc \in {"constructed", "switched"} /\ error = "none"

\* C23: the configuration a client is built with has the caller's value for
\* every key of the caller's model_config and the default of the backend
\* for every other default key
C23_CallerWins == Built => Asked(request)

\* a client was built with an override of a default key
C23_Witness ==
    /\ Built
    /\ request.model_config = Some({<<"model", "custom">>})
    /\ <<"model", "custom">> \in reviewer[1].model.config
    /\ <<"temperature", "0.7">> \in reviewer[1].model.config

\* C24: a switch_provider(p, k, c) that returned left provider p, credential
\* k and a client of p's class built from p's defaults and c alone, and
\* changed no session
C24_Switch ==
    [][pc' = "switched" /\ error' = "none" =>
          /\ reviewer'[1].provider = lower(request'.provider)
          /\ reviewer'[1].api_key = request'.api_key
          /\ reviewer'[1].model.class =
                 (IF lower(request'.provider) = "gemini" THEN "ChatGoogleGenerativeAI" ELSE "ChatOpenAI")
          /\ Asked(request)'
          /\ sessions' = sessions]_vars

\* a reviewer with an override and a session was switched to the other backend
\* with no override
C24_Witness ==
    /\ pc = "switched"
    /\ error = "none"
    /\ request.model_config = None
    /\ reviewer[1].provider = "openai"
    /\ Len(sessions) >= 1
    /\ sessions[1].final_review[2] = "ChatGoogleGenerativeAI"
    /\ <<"model", "custom">> \in sessions[1].final_review[3]

\* C28: a switch_provider that raised left the reviewer as it was
C28_FailedSwitch == [][pc' = "switched" /\ error' # "none" => reviewer' = reviewer]_vars

\* C25: in a run the provider calls are made one after the other in the
\* order of the selection, the call of persona i+1 after the call of persona
\* i has returned or raised, and the summarizer is invoked once, after the
\* call of the last persona and never before
C25_Sequential ==
    [][/\ pc = "review" /\ calls' # calls =>
             /\ summarized = None /\ summarized' = None
             /\ calls' = Append(calls, calls'[Len(calls')])
             /\ calls'[Len(calls')].persona = Len(calls) + 1
       /\ pc = "review" /\ summarized' # summarized =>
             /\ summarized = None
             /\ calls' = calls
             /\ Len(calls) = Len(selected_personas)
             /\ \A i \in DOMAIN calls : calls[i].persona = i
       /\ pc' = "returned" => summarized' # None]_vars

\* a run of two personas whose first call raised was summarized
C25_Witness ==
    /\ pc = "returned"
    /\ Len(selected_personas) = 2
    /\ Len(calls) = 2
    /\ ~calls[1].ok
    /\ calls[2].ok
    /\ summarized # None

\* C26: a selection call that generated personas trims nothing: its result
\* holds every record that matches the criteria, each before every generated
\* persona, and all the generated personas
C26_BackfillOrTrim ==
    [][pc = "trim" /\ pc' = "selected" /\ random_personas # <<>> =>
          /\ Len(selected_personas') = Len(filtered_df) + Len(random_personas)
          /\ \A i \in MatchingRows : \E j \in DOMAIN selected_personas' : selected_personas'[j].row = i
          /\ \A j, k \in DOMAIN selected_personas' :
                selected_personas'[j].row # 0 /\ selected_personas'[k].row = 0 => j < k]_vars

\* a result of a record that matches and a generated persona
C26_Witness ==
    /\ pc = "selected"
    /\ Len(selected_personas) = 2
    /\ selected_personas[1].row # 0
    /\ selected_personas[2].row = 0

\* C27: no step of a selection call, whether the call returns or raises,
\* changes the records of the store or the catalog: no row is dropped or
\* added, no field is rewritten, no match count is attached, and the call
\* filters the records the store was loaded with
C27_StoreUnchanged ==
    [][/\ pc \in {"idle", "backfill", "trim"} =>
             /\ df' = df
             /\ df' = Sheet(variant, Len(df), lists_ok)
             /\ unique_values' = unique_values
       /\ pc = "idle" /\ pc' \in {"backfill", "trim"} =>
             {filtered_df'[i].r.row : i \in DOMAIN filtered_df'} = MatchingRows']_vars

\* a call whose filters matched one of three records generated a persona and
\* returned, and the store has its three records
C27_Witness ==
    /\ pc = "selected"
    /\ Len(df) = 3
    /\ Cardinality(MatchingRows) = 1
    /\ Synthesized # {}

\* the thresholds of the criteria and the desired set each belongs to
ThresholdOf ==
    IF variant = "product"
    THEN [min_matching_hobbies |-> "desired_hobbies", min_matching_priorities |-> "desired_priorities"]
    ELSE [min_matching_specializations |-> "expertise_areas"]

Absent(o) == o = None \/ o = Some(<<>>)

\* the criteria with every empty list made absent and the threshold of every
\* desired set that is absent or empty made 0
Plain(c) ==
    [f \in DOMAIN c |->
        IF f \in DOMAIN ThresholdOf THEN (IF Absent(c[ThresholdOf[f]]) THEN 0 ELSE c[f])
        ELSE IF f = "min_matching_focus" THEN c[f]
        ELSE IF c[f] = Some(<<>>) THEN None ELSE c[f]]

\* C29: a selection call filters the records and generates personas as it
\* does for the criteria in which every empty list is absent and no
\* threshold of an absent or empty desired set is set: such a threshold and an
\* empty list restrict nothing
C29_EmptyIsAbsent ==
    /\ Filtered => filtered_df = _filter_personas(variant, df, Plain(criteria))
    /\ pc = "backfill" =>
          /\ _generate_random_persona_raises(variant, criteria, unique_values)
                = _generate_random_persona_raises(variant, Plain(criteria), unique_values)
          /\ ~_generate_random_persona_raises(variant, criteria, unique_values) =>
                _generate_random_persona(variant, criteria, unique_values)
                   = _generate_random_persona(variant, Plain(criteria), unique_values)

\* a call with an empty desired set and a threshold of 2 kept a record and
\* generates a persona
C29_Witness ==
    /\ pc = "backfill"
    /\ Len(filtered_df) >= 1
    /\ \E f \in DOMAIN ThresholdOf : criteria[f] = 2 /\ criteria[ThresholdOf[f]] = Some(<<>>)

\* C30: from_json returns the values of a decoded object when the keys of the
\* object are the nine fields and no other, whatever the type and the range
\* of the values, and the fallback summary when the object has one more key
C30_ExactKeys ==
    [][ParserCall =>
          LET r == Decoded(backend'.content)
          IN r.ok /\ r.value.kind = "dict" =>
                /\ pc' = "parsed"
                /\ Keys(r.value.d) = FieldSet(variant) =>
                      \A f \in FieldSet(variant) : result'.summary[f] = Get(r.value.d, f)
                /\ Keys(r.value.d) # FieldSet(variant) => result'.summary = UnableToParse(variant)]_vars

\* from_json returned the fallback for the nine fields and one more key
C30_Witness ==
    /\ pc = "parsed"
    /\ summarized = None
    /\ backend = Returns(dumps(Append(Items(variant, SampleSummary(variant, 0, 0)), <<"extra", Str("text")>>)))
    /\ result.summary = UnableToParse(variant)

====
